---------------------------- MODULE Spec2Model ----------------------------
(***************************************************************************)
(* A model of src/Singleton.cpp: the single-instance holders               *)
(*                                                                         *)
(*   Singleton1   double-checked locking over a shared_ptr holder          *)
(*   Singleton2   function-local static ("magic static")                   *)
(*   Singleton3   token-gated template base over a function-local static   *)
(*   Clobal       explicitly managed global slot (New / Get / Delete)      *)
(*   Singleton4   eagerly constructed static data member                   *)
(*                                                                         *)
(* The holders are independent of each other, so each has a specification  *)
(* of its own over the shared variable tuple; the variables of the other   *)
(* holders keep their initial values.                                      *)
(***************************************************************************)
EXTENDS Integers, Sequences, FiniteSets, TLC

\* ------------------------------------------------------------------ bounds
\* Threads that may call the accessors concurrently.
NumThreads == 2
\* Accessor calls (get_instance, get_global) made in one run.
MaxCalls == 4

\* Clobal calls (New, Get, Delete) made in one run.
MaxOps == 6
\* Accessor calls made in one run checked for progress.
MaxFairCalls == 2
\* Clobal calls made in one run by callers that do not serialise them.
MaxRaceOps == 3
\* Distinct constructor argument values handed to Clobal<T>::New.
NumArgs == 2
\* DerivedSingle objects that code outside Singleton3 tries to construct.
MaxClientObjs == 2

Threads == 1..NumThreads

\* The null pointer (nullptr, an empty shared_ptr field, an unowned mutex).
NULL == 0

VARIABLES
    \* ---- Singleton1 (lines 10-33)
    m_instance_ptr,   \* static ptr m_instance_ptr: [ptr, ctrl], the two words of a shared_ptr
    m_mutex,          \* static std::mutex m_mutex: NULL, or the thread that owns it
    pc1,              \* each thread's position in Singleton1::get_instance
    view1,            \* what each thread's unsynchronised reads may observe
    tmp1,             \* the object of the new-expression of line 22, per thread
    ret1,             \* the handle each thread's last call returned
    obj1,             \* the state of each Singleton1 object ever allocated
    use_count1,       \* the reference count of each object's control block
    ctorCalls1,       \* Singleton1() invocations ("constructor called")
    dtorCalls1,       \* ~Singleton1() invocations ("destructor called")
    calls1,           \* get_instance calls started so far
    locked1,          \* whether each thread's current call acquired m_mutex
    phase1,           \* "running", or "exited" once static destruction has run
    warm1,            \* whether each thread's call in progress began with the holder published
    \* ---- function-local statics (lines 48-51, 64-67, 169-172)
    guard,            \* each static's initialisation guard: "uninit", "busy", "done"
    inst,             \* the object constructed last in each static's storage (NULL: none)
    sctorCalls,       \* constructor invocations per static ("constructor called")
    sctorDone,        \* constructor completions per static
    spc,              \* each thread's position in the accessor it is calling
    scls,             \* the accessor each thread is calling (or called last)
    sret,             \* per thread and static, the instance the last call returned
    scalls,           \* accessor calls started so far
    sthrown,          \* per thread, whether its last call ended in an exception
    searly,           \* per thread, whether its current call began before the static was initialised
    nothrow_default,  \* std::is_nothrow_constructible<T>::value of Singleton3's T
    terminated,       \* std::terminate has ended the process
    sorder,           \* the statics whose initialisation completed, in order of completion
    sdead,            \* the statics destroyed at exit so far, in order of destruction
    sdtorCalls,       \* destructor invocations per static ("destructor called")
    sphase,           \* "running", or "exiting" once main has returned
    \* ---- Clobal<T> (lines 99-123)
    slot,             \* static T* ptr of GetPPtr: NULL, or the installed object
    gobj,             \* each T object ever constructed: its state and constructor arguments
    gctorCalls,       \* T constructor invocations
    gdtorCalls,       \* T destructor invocations
    gpc,              \* each thread's position in the Clobal call it is making
    gargs,            \* the arguments of each thread's current New
    gtmp,             \* the pointer each thread's current call holds
    gret,             \* what each thread's last Get returned, until its next call
    gentry,           \* the slot and the counters as each thread's call in progress found them
    gops,             \* Clobal calls started so far
    gtrace,           \* the calls that have returned, in order
    expected,         \* what the calls returned so far should have left installed
    aborted,          \* abort() has ended the process (a failed assertion, a detected double free)
    serial,           \* whether the callers serialise their Clobal calls
    \* ---- DerivedSingle constructed by client code (lines 72, 78)
    outside,          \* DerivedSingle objects constructed outside Singleton3::get_instance
    \* ---- Singleton4 (lines 139-156)
    m_instance,       \* static Singleton4 m_instance: "storage", "constructed", "destroyed"
    ctorCalls4,       \* Singleton4() invocations ("constructor called")
    dtorCalls4,       \* ~Singleton4() invocations ("destructor called")
    phase4,           \* "static_init" (before main), "main", "exited"
    pc4,              \* each thread's position in Singleton4::get_instance
    ret4,             \* what each thread's last call returned a reference to
    early4,           \* whether that call returned before m_instance was constructed
    calls4            \* get_instance calls started so far

vars1 == <<m_instance_ptr, m_mutex, pc1, view1, tmp1, ret1, obj1, use_count1,
           ctorCalls1, dtorCalls1, calls1, locked1, phase1, warm1>>

varsS == <<guard, inst, sctorCalls, sctorDone, spc, scls, sret, scalls,
           sthrown, searly, nothrow_default, terminated,
           sorder, sdead, sdtorCalls, sphase>>

\* The bookkeeping of the destruction of the statics at exit.
varsExitS == <<sdead, sdtorCalls, sphase>>

varsG == <<slot, gobj, gctorCalls, gdtorCalls, gpc, gargs, gtmp, gret, gentry,
           gops, gtrace, expected, aborted, serial>>

varsC == <<outside>>

vars4 == <<m_instance, ctorCalls4, dtorCalls4, phase4, pc4, ret4, early4, calls4>>

vars == <<vars1, varsS, varsG, varsC, vars4>>

\* What the calls on one holder leave alone: the other holders.
others1 == <<varsS, varsG, varsC, vars4>>
othersS == <<vars1, varsG, varsC, vars4>>
othersG == <<vars1, varsS, varsC, vars4>>
othersC == <<vars1, varsS, varsG, vars4>>
others4 == <<vars1, varsS, varsG, varsC>>

\* ============================================================ Singleton1
\* Object identities: one per construction, in the order of construction.
ObjIds1 == 1..MaxCalls

EmptyPtr == [ptr |-> NULL, ctrl |-> NULL]

\* Singleton1::m_instance_ptr and m_mutex are zero-initialised statics: the
\* holder starts empty, the mutex free, nothing constructed.
Init1 ==
    /\ m_instance_ptr = EmptyPtr
    /\ m_mutex = NULL
    /\ pc1 = [t \in Threads |-> "idle"]
    /\ view1 = [t \in Threads |-> [ptr |-> NULL, ctrl |-> NULL, objs |-> {}]]
    /\ tmp1 = [t \in Threads |-> NULL]
    /\ ret1 = [t \in Threads |-> EmptyPtr]
    /\ obj1 = [o \in ObjIds1 |-> "none"]
    /\ use_count1 = [o \in ObjIds1 |-> 0]
    /\ ctorCalls1 = 0
    /\ dtorCalls1 = 0
    /\ calls1 = 0
    /\ locked1 = [t \in Threads |-> FALSE]
    /\ phase1 = "running"
    /\ warm1 = [t \in Threads |-> FALSE]

\* The objects whose constructor has completed (and that are not destroyed).
Constructed1 == {o \in ObjIds1 : obj1[o] = "constructed"}

\* Everything written so far, as a thread sees it after synchronising with the
\* writers (acquiring m_mutex after their unlock).
SyncView1 == [ptr |-> m_instance_ptr.ptr, ctrl |-> m_instance_ptr.ctrl,
              objs |-> {o \in ObjIds1 : obj1[o] \in {"constructed", "destroyed"}}]

\* A caller enters get_instance (line 18).
Call1(t) ==
    /\ phase1 = "running"
    /\ pc1[t] \in {"idle", "released", "threw"}
    /\ calls1 < MaxCalls
    /\ calls1' = calls1 + 1
    /\ pc1' = [pc1 EXCEPT ![t] = "check1"]
    /\ ret1' = [ret1 EXCEPT ![t] = EmptyPtr]
    /\ locked1' = [locked1 EXCEPT ![t] = FALSE]
    /\ UNCHANGED <<m_instance_ptr, m_mutex, view1, tmp1, obj1, use_count1,
                   ctorCalls1, dtorCalls1, phase1>>
    /\ warm1' = [warm1 EXCEPT ![t] = m_instance_ptr.ptr # NULL]
    /\ UNCHANGED others1

\* Line 19: if(m_instance_ptr == nullptr), read without the lock.
FirstCheck(t) ==
    /\ pc1[t] = "check1"
    /\ pc1' = [pc1 EXCEPT ![t] = IF view1[t].ptr = NULL THEN "lock" ELSE "ret"]
    /\ UNCHANGED <<m_instance_ptr, m_mutex, view1, tmp1, ret1, obj1, use_count1,
                   ctorCalls1, dtorCalls1, calls1, locked1, phase1>>
    /\ UNCHANGED warm1
    /\ UNCHANGED others1

\* A plausible slip: the lock is taken on a mutex of the caller's own and
\* excludes nobody.
Lock_NoExclusion(t) ==
    /\ pc1[t] = "lock"
    /\ m_mutex' = t
    /\ view1' = [view1 EXCEPT ![t] = SyncView1]
    /\ pc1' = [pc1 EXCEPT ![t] = "check2"]
    /\ locked1' = [locked1 EXCEPT ![t] = TRUE]
    /\ UNCHANGED <<m_instance_ptr, tmp1, ret1, obj1, use_count1,
                   ctorCalls1, dtorCalls1, calls1, phase1>>
    /\ UNCHANGED warm1
    /\ UNCHANGED others1

\* Line 20: std::lock_guard<std::mutex> lk(m_mutex). Blocks while another
\* thread owns the mutex; acquiring it synchronises with the last unlock.
Lock(t) ==
    /\ pc1[t] = "lock"
    /\ m_mutex = NULL
    /\ m_mutex' = t
    /\ view1' = [view1 EXCEPT ![t] = SyncView1]
    /\ pc1' = [pc1 EXCEPT ![t] = "check2"]
    /\ locked1' = [locked1 EXCEPT ![t] = TRUE]
    /\ UNCHANGED <<m_instance_ptr, tmp1, ret1, obj1, use_count1,
                   ctorCalls1, dtorCalls1, calls1, phase1>>
    /\ UNCHANGED warm1
    /\ UNCHANGED others1

\* A plausible slip: the re-check under the lock is left out.
SecondCheckIsNull_NoRecheck(t) == TRUE

\* Line 21: if(m_instance_ptr == nullptr), read under the lock.
SecondCheckIsNull(t) == view1[t].ptr = NULL

SecondCheck(t) ==
    /\ pc1[t] = "check2"
    /\ pc1' = [pc1 EXCEPT ![t] = IF SecondCheckIsNull(t) THEN "new" ELSE "unlock"]
    /\ UNCHANGED <<m_instance_ptr, m_mutex, view1, tmp1, ret1, obj1, use_count1,
                   ctorCalls1, dtorCalls1, calls1, locked1, phase1>>
    /\ UNCHANGED warm1
    /\ UNCHANGED others1

\* Line 22, new Singleton1: the object is allocated and Singleton1() is entered.
New1(t) ==
    /\ pc1[t] = "new"
    /\ LET o == ctorCalls1 + 1 IN
        /\ o \in ObjIds1
        /\ obj1' = [obj1 EXCEPT ![o] = "constructing"]
        /\ tmp1' = [tmp1 EXCEPT ![t] = o]
    /\ ctorCalls1' = ctorCalls1 + 1
    /\ pc1' = [pc1 EXCEPT ![t] = "ctor"]
    /\ UNCHANGED <<m_instance_ptr, m_mutex, view1, ret1, use_count1,
                   dtorCalls1, calls1, locked1, phase1>>
    /\ UNCHANGED warm1
    /\ UNCHANGED others1

\* Lines 28-30 and 22: Singleton1() completes and the temporary
\* std::shared_ptr<Singleton1> takes ownership (use_count 1).
CtorDone1(t) ==
    /\ pc1[t] = "ctor"
    /\ obj1' = [obj1 EXCEPT ![tmp1[t]] = "constructed"]
    /\ use_count1' = [use_count1 EXCEPT ![tmp1[t]] = 1]
    /\ view1' = [view1 EXCEPT ![t].objs = @ \cup {tmp1[t]}]
    /\ pc1' = [pc1 EXCEPT ![t] = "assign"]
    /\ UNCHANGED <<m_instance_ptr, m_mutex, tmp1, ret1,
                   ctorCalls1, dtorCalls1, calls1, locked1, phase1>>
    /\ UNCHANGED warm1
    /\ UNCHANGED others1

\* Singleton1() leaves by an exception (lines 28-30, were the constructor to
\* throw): the new-expression frees the storage, the lock_guard of line 20
\* unlocks m_mutex during unwinding, and the exception leaves get_instance.
CtorThrow1(t) ==
    /\ pc1[t] = "ctor"
    /\ obj1' = [obj1 EXCEPT ![tmp1[t]] = "failed"]
    /\ tmp1' = [tmp1 EXCEPT ![t] = NULL]
    /\ m_mutex' = NULL
    /\ pc1' = [pc1 EXCEPT ![t] = "threw"]
    /\ UNCHANGED <<m_instance_ptr, view1, ret1, use_count1,
                   ctorCalls1, dtorCalls1, calls1, locked1, phase1>>
    /\ UNCHANGED warm1
    /\ UNCHANGED others1

\* Dropping one owner of control block c: the last owner destroys the object
\* (~Singleton1, lines 15-17). A handle without a control block owns nothing.
ReleaseCount(c) ==
    IF c = NULL THEN use_count1
    ELSE [use_count1 EXCEPT ![c] = @ - 1]

ReleaseObj(c) ==
    IF c # NULL /\ use_count1[c] = 1 THEN [obj1 EXCEPT ![c] = "destroyed"]
    ELSE obj1

ReleaseDtor(c) ==
    IF c # NULL /\ use_count1[c] = 1 THEN dtorCalls1 + 1 ELSE dtorCalls1

\* Line 22, m_instance_ptr = <temporary>: the move assignment stores both
\* words of the holder and releases what the holder owned before.
Assign1(t) ==
    /\ pc1[t] = "assign"
    /\ m_instance_ptr' = [ptr |-> tmp1[t], ctrl |-> tmp1[t]]
    /\ view1' = [view1 EXCEPT ![t].ptr = tmp1[t], ![t].ctrl = tmp1[t]]
    /\ use_count1' = ReleaseCount(m_instance_ptr.ctrl)
    /\ obj1' = ReleaseObj(m_instance_ptr.ctrl)
    /\ dtorCalls1' = ReleaseDtor(m_instance_ptr.ctrl)
    /\ tmp1' = [tmp1 EXCEPT ![t] = NULL]
    /\ pc1' = [pc1 EXCEPT ![t] = "unlock"]
    /\ UNCHANGED <<m_mutex, ret1, ctorCalls1, calls1, locked1, phase1>>
    /\ UNCHANGED warm1
    /\ UNCHANGED others1

\* A plausible slip: the mutex is locked by hand and the unlock forgotten.
Unlock_Forgotten(t) ==
    /\ pc1[t] = "unlock"
    /\ pc1' = [pc1 EXCEPT ![t] = "ret"]
    /\ UNCHANGED <<m_instance_ptr, m_mutex, view1, tmp1, ret1, obj1, use_count1,
                   ctorCalls1, dtorCalls1, calls1, locked1, phase1>>
    /\ UNCHANGED warm1
    /\ UNCHANGED others1

\* Line 24: the lock_guard leaves scope and unlocks m_mutex.
Unlock(t) ==
    /\ pc1[t] = "unlock"
    /\ m_mutex = t
    /\ m_mutex' = NULL
    /\ pc1' = [pc1 EXCEPT ![t] = "ret"]
    /\ UNCHANGED <<m_instance_ptr, view1, tmp1, ret1, obj1, use_count1,
                   ctorCalls1, dtorCalls1, calls1, locked1, phase1>>
    /\ UNCHANGED warm1
    /\ UNCHANGED others1

\* Line 25: return m_instance_ptr, a copy of the holder as this thread reads
\* it; the copy takes a share of the control block it read, if any.
Return1(t) ==
    /\ pc1[t] = "ret"
    /\ LET h == [ptr |-> view1[t].ptr, ctrl |-> view1[t].ctrl] IN
        /\ ret1' = [ret1 EXCEPT ![t] = h]
        /\ use_count1' = IF h.ctrl = NULL THEN use_count1
                         ELSE [use_count1 EXCEPT ![h.ctrl] = @ + 1]
    /\ pc1' = [pc1 EXCEPT ![t] = "holding"]
    /\ UNCHANGED <<m_instance_ptr, m_mutex, view1, tmp1, obj1,
                   ctorCalls1, dtorCalls1, calls1, locked1, phase1>>
    /\ warm1' = [warm1 EXCEPT ![t] = FALSE]
    /\ UNCHANGED others1

\* The caller drops the handle it was returned (~shared_ptr).
Release1(t) ==
    /\ pc1[t] = "holding"
    /\ use_count1' = ReleaseCount(ret1[t].ctrl)
    /\ obj1' = ReleaseObj(ret1[t].ctrl)
    /\ dtorCalls1' = ReleaseDtor(ret1[t].ctrl)
    /\ pc1' = [pc1 EXCEPT ![t] = "released"]
    /\ UNCHANGED <<m_instance_ptr, m_mutex, view1, tmp1, ret1,
                   ctorCalls1, calls1, locked1, phase1>>
    /\ UNCHANGED warm1
    /\ UNCHANGED others1

\* m_instance_ptr is a plain shared_ptr (line 31) and line 19 and line 25 read
\* it with no lock while line 22 writes it: a data race. What the racing
\* reader observes is not ordered by anything: each of the writer's stores
\* (the object's construction, the holder's pointer word, the holder's
\* control-block word) reaches it separately and in any order.
ObserveObj(t) ==
    /\ \E o \in ObjIds1 :
        /\ obj1[o] \in {"constructed", "destroyed"}
        /\ o \notin view1[t].objs
        /\ view1' = [view1 EXCEPT ![t].objs = @ \cup {o}]
    /\ UNCHANGED <<m_instance_ptr, m_mutex, pc1, tmp1, ret1, obj1, use_count1,
                   ctorCalls1, dtorCalls1, calls1, locked1, phase1>>
    /\ UNCHANGED warm1
    /\ UNCHANGED others1

ObservePtr(t) ==
    /\ view1[t].ptr # m_instance_ptr.ptr
    /\ view1' = [view1 EXCEPT ![t].ptr = m_instance_ptr.ptr]
    /\ UNCHANGED <<m_instance_ptr, m_mutex, pc1, tmp1, ret1, obj1, use_count1,
                   ctorCalls1, dtorCalls1, calls1, locked1, phase1>>
    /\ UNCHANGED warm1
    /\ UNCHANGED others1

ObserveCtrl(t) ==
    /\ view1[t].ctrl # m_instance_ptr.ctrl
    /\ view1' = [view1 EXCEPT ![t].ctrl = m_instance_ptr.ctrl]
    /\ UNCHANGED <<m_instance_ptr, m_mutex, pc1, tmp1, ret1, obj1, use_count1,
                   ctorCalls1, dtorCalls1, calls1, locked1, phase1>>
    /\ UNCHANGED warm1
    /\ UNCHANGED others1

\* Process teardown: after main returns, the static m_instance_ptr (line 31)
\* is destroyed and gives up its share. No thread is inside get_instance.
Exit1 ==
    /\ phase1 = "running"
    /\ \A t \in Threads : pc1[t] \in {"idle", "holding", "released", "threw"}
    /\ phase1' = "exited"
    /\ use_count1' = ReleaseCount(m_instance_ptr.ctrl)
    /\ obj1' = ReleaseObj(m_instance_ptr.ctrl)
    /\ dtorCalls1' = ReleaseDtor(m_instance_ptr.ctrl)
    /\ m_instance_ptr' = EmptyPtr
    /\ UNCHANGED <<m_mutex, pc1, view1, tmp1, ret1, ctorCalls1, calls1, locked1>>
    /\ UNCHANGED warm1
    /\ UNCHANGED others1

Next1 ==
    \/ \E t \in Threads : Call1(t)
    \/ \E t \in Threads : FirstCheck(t)
    \/ \E t \in Threads : Lock(t)
    \/ \E t \in Threads : SecondCheck(t)
    \/ \E t \in Threads : New1(t)
    \/ \E t \in Threads : CtorDone1(t)
    \/ \E t \in Threads : Assign1(t)
    \/ \E t \in Threads : Unlock(t)
    \/ \E t \in Threads : Return1(t)
    \/ \E t \in Threads : Release1(t)
    \/ \E t \in Threads : ObserveObj(t)
    \/ \E t \in Threads : ObservePtr(t)
    \/ \E t \in Threads : ObserveCtrl(t)
    \/ Exit1

\* Singleton1 over a constructor that can throw.
Next1Throw ==
    \/ Next1
    \/ \E t \in Threads : CtorThrow1(t)

\* The steps of thread t inside get_instance (lines 19-25).
Step1(t) ==
    \/ FirstCheck(t)
    \/ Lock(t)
    \/ SecondCheck(t)
    \/ New1(t)
    \/ CtorDone1(t)
    \/ Assign1(t)
    \/ Unlock(t)
    \/ Return1(t)

\* ------------------------------------------------- claims on Singleton1
\* A call of thread t has returned (and no new call has started since); the
\* caller still holds the handle or has dropped it.
Returned1(t) == pc1[t] \in {"holding", "released"}

\* C1: however many threads call Singleton1::get_instance concurrently on an
\* empty holder and however their steps interleave, Singleton1() is invoked
\* at most once, exactly once as soon as a call has returned, and every call
\* returns a handle to that one instance.
C1_SingleConstruction ==
    /\ ctorCalls1 <= 1
    /\ \A t \in Threads :
        Returned1(t) =>
            /\ ctorCalls1 = 1
            /\ ret1[t].ptr # NULL
            /\ \A u \in Threads : Returned1(u) => ret1[u].ptr = ret1[t].ptr

\* Every thread raced past the unlocked first check of its first call (each
\* went on to take the mutex), and every call has returned.
C1_Witness ==
    /\ \A t \in Threads : pc1[t] = "holding" /\ locked1[t]
    /\ calls1 = NumThreads
    /\ ctorCalls1 = 1

\* C3: a call that has read the holder non-null (it is at its return
\* statement), and a call that has returned a handle, sees the construction
\* of the instance the holder or the handle points to as complete.
C3_ConstructionBeforeUse ==
    \A t \in Threads :
        /\ (pc1[t] = "ret" /\ view1[t].ptr # NULL) => view1[t].ptr \in view1[t].objs
        /\ pc1[t] = "holding" =>
              ret1[t].ptr # NULL /\ ret1[t].ptr \in view1[t].objs

\* C10: the Singleton1 instance is destroyed at most once, only at process
\* teardown, never while the holder or a returned handle still refers to it,
\* and exactly once when the process has exited and every handle is released.
C10_DestroyedOnceAtTeardown ==
    /\ dtorCalls1 <= 1
    /\ \A o \in ObjIds1 :
        obj1[o] = "destroyed" =>
            /\ phase1 = "exited"
            /\ m_instance_ptr.ptr # o
            /\ \A t \in Threads : pc1[t] = "holding" => ret1[t].ptr # o
    /\ (phase1 = "exited" /\ ctorCalls1 = 1 /\ \A t \in Threads : pc1[t] # "holding")
          => dtorCalls1 = 1

\* ================================================ function-local statics
\* The accessors built on a function-local static: Singleton2::get_instance
\* (static Singleton2 instance), Singleton3<T>::get_instance (static T
\* instance{token()}) and get_global<T> (static T instance).
Statics == {"Singleton2", "Singleton3", "get_global"}

\* No static is initialised before control first reaches its declaration.
\* main instantiates Singleton3 with DerivedSingle, which has no default
\* constructor (lines 76-86): is_nothrow_constructible<DerivedSingle> is false.
InitS ==
    /\ guard = [c \in Statics |-> "uninit"]
    /\ inst = [c \in Statics |-> NULL]
    /\ sctorCalls = [c \in Statics |-> 0]
    /\ sctorDone = [c \in Statics |-> 0]
    /\ spc = [t \in Threads |-> "idle"]
    /\ scls = [t \in Threads |-> "Singleton2"]
    /\ sret = [t \in Threads |-> [c \in Statics |-> NULL]]
    /\ scalls = 0
    /\ sthrown = [t \in Threads |-> FALSE]
    /\ searly = [t \in Threads |-> FALSE]
    /\ terminated = FALSE
    /\ sorder = <<>>
    /\ sdead = <<>>
    /\ sdtorCalls = [c \in Statics |-> 0]
    /\ sphase = "running"

\* A caller enters one of the accessors (lines 48, 64, 169); main (lines
\* 88-91) is a caller that enters Singleton3<DerivedSingle>'s twice.
CallS(t, c) ==
    /\ ~terminated
    /\ sphase = "running"
    /\ spc[t] = "idle"
    /\ scalls < MaxCalls
    /\ scalls' = scalls + 1
    /\ scls' = [scls EXCEPT ![t] = c]
    /\ sthrown' = [sthrown EXCEPT ![t] = FALSE]
    /\ searly' = [searly EXCEPT ![t] = guard[c] # "done"]
    /\ spc' = [spc EXCEPT ![t] = "decl"]
    /\ UNCHANGED <<guard, inst, sctorCalls, sctorDone, sret, nothrow_default,
                   terminated>>
    /\ UNCHANGED <<sorder, varsExitS>>
    /\ UNCHANGED othersS

\* Plausible slips in the one-time initialisation: a caller that finds the
\* initialisation in progress skips it instead of waiting, or starts it again.
GuardDecision_NoWait(c) ==
    CASE guard[c] = "uninit" -> "init"
      [] guard[c] = "busy" -> "skip"
      [] guard[c] = "done" -> "skip"

GuardDecision_NoGuard(c) ==
    CASE guard[c] = "uninit" -> "init"
      [] guard[c] = "busy" -> "init"
      [] guard[c] = "done" -> "skip"

\* What control does on reaching the declaration of a function-local static
\* (lines 49, 65, 170): initialise it if nobody has, wait while another
\* thread is initialising it, pass once it is initialised.
GuardDecision(c) ==
    CASE guard[c] = "uninit" -> "init"
      [] guard[c] = "busy" -> "wait"
      [] guard[c] = "done" -> "skip"

\* Control reaches the declaration and begins the initialisation: the
\* constructor is entered (lines 53, 78, 161).
BeginInit(t) ==
    /\ ~terminated
    /\ spc[t] = "decl"
    /\ GuardDecision(scls[t]) = "init"
    /\ guard' = [guard EXCEPT ![scls[t]] = "busy"]
    /\ sctorCalls' = [sctorCalls EXCEPT ![scls[t]] = @ + 1]
    /\ inst' = [inst EXCEPT ![scls[t]] = sctorCalls[scls[t]] + 1]
    /\ spc' = [spc EXCEPT ![t] = "ctor"]
    /\ UNCHANGED <<sctorDone, scls, sret, scalls, sthrown, searly, nothrow_default,
                   terminated>>
    /\ UNCHANGED <<sorder, varsExitS>>
    /\ UNCHANGED othersS

\* Control reaches the declaration of an initialised static and passes it.
SkipInit(t) ==
    /\ ~terminated
    /\ spc[t] = "decl"
    /\ GuardDecision(scls[t]) = "skip"
    /\ spc' = [spc EXCEPT ![t] = "ret"]
    /\ UNCHANGED <<guard, inst, sctorCalls, sctorDone, scls, sret, scalls,
                   sthrown, searly, nothrow_default, terminated>>
    /\ UNCHANGED <<sorder, varsExitS>>
    /\ UNCHANGED othersS

\* The constructor completes (lines 53-55, 78-80, 161-163): the static is
\* initialised, and its destructor is registered to run at exit.
CtorDoneS(t) ==
    /\ ~terminated
    /\ spc[t] = "ctor"
    /\ guard' = [guard EXCEPT ![scls[t]] = "done"]
    /\ sctorDone' = [sctorDone EXCEPT ![scls[t]] = @ + 1]
    /\ sorder' = Append(sorder, scls[t])
    /\ spc' = [spc EXCEPT ![t] = "ret"]
    /\ UNCHANGED <<inst, sctorCalls, scls, sret, scalls, sthrown, searly,
                   nothrow_default, terminated>>
    /\ UNCHANGED varsExitS
    /\ UNCHANGED othersS

\* return instance (lines 50, 66, 171).
ReturnS(t) ==
    /\ ~terminated
    /\ spc[t] = "ret"
    /\ sret' = [sret EXCEPT ![t][scls[t]] = inst[scls[t]]]
    /\ spc' = [spc EXCEPT ![t] = "idle"]
    /\ UNCHANGED <<guard, inst, sctorCalls, sctorDone, scls, scalls, sthrown, searly,
                   nothrow_default, terminated>>
    /\ UNCHANGED <<sorder, varsExitS>>
    /\ UNCHANGED othersS

\* Line 64: noexcept(std::is_nothrow_constructible<T>::value). The trait is
\* asked about T with no constructor arguments, that is about T's default
\* constructor, while line 65 constructs T from a token. Singleton2's and
\* get_global's accessors (lines 48, 169) carry no exception specification.
GetInstanceNoexcept(c) == c = "Singleton3" /\ nothrow_default

\* The constructor leaves by an exception (lines 53-55, 78-80, 161-163 for a
\* type whose constructor can throw): the initialisation is not complete and
\* the static stays uninitialised. The exception leaves the accessor to its
\* caller, unless the accessor is noexcept: then std::terminate is called.
CtorThrowS(t) ==
    /\ ~terminated
    /\ spc[t] = "ctor"
    /\ guard' = [guard EXCEPT ![scls[t]] = "uninit"]
    /\ inst' = [inst EXCEPT ![scls[t]] = NULL]
    /\ IF GetInstanceNoexcept(scls[t])
       THEN /\ terminated' = TRUE
            /\ spc' = [spc EXCEPT ![t] = "terminated"]
            /\ UNCHANGED sthrown
       ELSE /\ sthrown' = [sthrown EXCEPT ![t] = TRUE]
            /\ spc' = [spc EXCEPT ![t] = "idle"]
            /\ UNCHANGED terminated
    /\ UNCHANGED <<sctorCalls, sctorDone, scls, sret, scalls, searly,
                   nothrow_default>>
    /\ UNCHANGED <<sorder, varsExitS>>
    /\ UNCHANGED othersS

\* main returns (line 91), or the program calls exit: the callers have
\* returned and the destruction of the statics begins.
ExitS ==
    /\ ~terminated
    /\ sphase = "running"
    /\ \A t \in Threads : spc[t] = "idle"
    /\ sphase' = "exiting"
    /\ UNCHANGED <<guard, inst, sctorCalls, sctorDone, spc, scls, sret, scalls,
                   sthrown, searly, nothrow_default, terminated, sorder, sdead,
                   sdtorCalls>>
    /\ UNCHANGED othersS

\* A plausible slip in the order of destruction: the order of construction.
DestroyTarget_ConstructionOrder == sorder[Len(sdead) + 1]

\* The static destroyed next at exit: the one whose initialisation completed
\* last among those not destroyed yet (objects of static storage duration
\* are destroyed in the reverse order of the completion of their
\* initialisation).
DestroyTarget == sorder[Len(sorder) - Len(sdead)]

\* The destructor of the next static runs (lines 44-46, 81-83, 164-166).
DestroyNextS ==
    /\ sphase = "exiting"
    /\ Len(sdead) < Len(sorder)
    /\ sdead' = Append(sdead, DestroyTarget)
    /\ sdtorCalls' = [sdtorCalls EXCEPT ![DestroyTarget] = @ + 1]
    /\ UNCHANGED <<guard, inst, sctorCalls, sctorDone, spc, scls, sret, scalls,
                   sthrown, searly, nothrow_default, terminated, sorder, sphase>>
    /\ UNCHANGED othersS

NextS ==
    \/ \E t \in Threads, c \in Statics : CallS(t, c)
    \/ \E t \in Threads : BeginInit(t)
    \/ \E t \in Threads : SkipInit(t)
    \/ \E t \in Threads : CtorDoneS(t)
    \/ \E t \in Threads : ReturnS(t)
    \/ ExitS
    \/ DestroyNextS

\* The accessors over types whose constructor can throw.
NextSThrow ==
    \/ NextS
    \/ \E t \in Threads : CtorThrowS(t)

\* ---- DerivedSingle constructed by code outside Singleton3 (lines 72-86)
\* How an expression written outside Singleton3 and DerivedSingle may try to
\* make a DerivedSingle: DerivedSingle(Singleton3<DerivedSingle>::token()),
\* DerivedSingle({}), or a copy of the instance.
ClientForms == {"named_token", "braces", "copy"}

\* Whether the expression compiles. token is a protected member (lines
\* 71-72): code outside cannot name it. But struct token{} declares no
\* constructor, so {} initialises the parameter of the public constructor
\* DerivedSingle(token) (lines 77-78) without naming token. The copy
\* constructor is deleted (line 84).
ClientWellFormed(form) ==
    CASE form = "named_token" -> FALSE
      [] form = "braces" -> TRUE
      [] form = "copy" -> FALSE

\* Client code constructs a DerivedSingle of its own (lines 78-80 run).
ClientConstruct(form) ==
    /\ ~terminated
    /\ sphase = "running"
    /\ ClientWellFormed(form)
    /\ outside < MaxClientObjs
    /\ outside' = outside + 1
    /\ UNCHANGED othersC

\* Singleton3<DerivedSingle>::get_instance and client code side by side.
NextToken ==
    \/ \E t \in Threads : CallS(t, "Singleton3")
    \/ \E t \in Threads : BeginInit(t)
    \/ \E t \in Threads : SkipInit(t)
    \/ \E t \in Threads : CtorDoneS(t)
    \/ \E t \in Threads : ReturnS(t)
    \/ \E form \in ClientForms : ClientConstruct(form)

\* The steps of thread t inside an accessor (lines 49-50, 65-66, 170-171).
StepS(t) ==
    \/ BeginInit(t)
    \/ SkipInit(t)
    \/ CtorDoneS(t)
    \/ ReturnS(t)

\* ------------------------------------- claims on the function-local statics
\* C2: for every sequence and interleaving of get_instance calls on a
\* function-local-static singleton, two threads racing on the first call
\* included, the constructor runs at most once, exactly once as soon as a
\* call has returned, and every call returns the same instance.
C2_StaticConstructedOnce ==
    \A c \in Statics :
        /\ sctorCalls[c] <= 1
        /\ \A t \in Threads :
            sret[t][c] # NULL =>
                /\ sctorCalls[c] = 1
                /\ sret[t][c] = inst[c]
                /\ \A u \in Threads : sret[u][c] # NULL => sret[u][c] = sret[t][c]

\* Two threads raced on the very first call of Singleton3<T>::get_instance
\* (both entered it before the static was initialised) and both have returned.
C2_Witness ==
    /\ \A t \in Threads :
        /\ scls[t] = "Singleton3" /\ searly[t]
        /\ spc[t] = "idle" /\ sret[t]["Singleton3"] # NULL
    /\ scalls = NumThreads
    /\ sctorCalls["Singleton3"] = 1

\* C4: a thread that reaches the declaration of the static while another
\* thread is initialising it stays there until the initialisation is over,
\* and no call is at its return statement, or has returned, before the
\* constructor of the instance has completed.
C4_InitBlocksRacingCallers ==
    /\ [](\A t \in Threads :
            /\ spc[t] = "ret" => guard[scls[t]] = "done" /\ sctorDone[scls[t]] >= 1
            /\ \A c \in Statics : sret[t][c] # NULL => sctorDone[c] >= 1)
    /\ [][\A t \in Threads :
            (spc[t] = "decl" /\ guard[scls[t]] = "busy") => spc'[t] = "decl"]_vars

\* A thread is at the declaration while another thread is inside the
\* constructor of the same static.
C4_Witness ==
    \E t \in Threads, u \in Threads :
        /\ t # u
        /\ spc[u] = "ctor" /\ spc[t] = "decl" /\ scls[t] = scls[u]
        /\ guard[scls[t]] = "busy"

\* The destruction at exit is complete.
ExitedS == sphase = "exiting" /\ Len(sdead) = Len(sorder)

\* C11: among the function-local-static singletons, every instance whose
\* initialisation completed is destroyed exactly once at program exit, in
\* the reverse order of the completion of the initialisations; an instance
\* whose accessor was never called is neither constructed nor destroyed
\* (a constructor is only ever entered by a caller at the declaration).
C11_ReverseOrderTeardown ==
    /\ [](/\ \A i \in 1..Len(sdead) : sdead[i] = sorder[Len(sorder) + 1 - i]
          /\ \A c \in Statics :
                /\ sdtorCalls[c] <= sctorDone[c]
                /\ sdtorCalls[c] <= 1
                /\ sdtorCalls[c] = Cardinality({i \in 1..Len(sdead) : sdead[i] = c})
                /\ sctorDone[c] = Cardinality({i \in 1..Len(sorder) : sorder[i] = c})
                /\ sctorCalls[c] = 0 => sctorDone[c] = 0 /\ sdtorCalls[c] = 0
          /\ sphase = "running" => sdead = <<>>
          /\ ExitedS => \A c \in Statics : sdtorCalls[c] = sctorDone[c])
    /\ [][\A c \in Statics :
            sctorCalls'[c] # sctorCalls[c] =>
                \E t \in Threads : spc[t] = "decl" /\ scls[t] = c]_vars

\* get_global's static was initialised first and Singleton2's second,
\* Singleton3's accessor was never called, and the exit has destroyed
\* Singleton2's instance first and get_global's second.
C11_Witness ==
    /\ ExitedS
    /\ sorder = <<"get_global", "Singleton2">>
    /\ sdead = <<"Singleton2", "get_global">>
    /\ sctorCalls["Singleton3"] = 0 /\ sdtorCalls["Singleton3"] = 0
    /\ sdtorCalls["Singleton2"] = 1 /\ sdtorCalls["get_global"] = 1

\* C12: the only path by which a DerivedSingle is ever constructed is
\* Singleton3<T>::get_instance(): code outside the base and the derived
\* class constructs none, and the number of instances never exceeds one.
C12_TokenUnforgeable ==
    /\ outside = 0
    /\ sctorCalls["Singleton3"] + outside <= 1

\* The locked region of Singleton1::get_instance (lines 20-24).
InLock1(t) == pc1[t] \in {"check2", "new", "ctor", "assign", "unlock"}

\* C14: once the instance is published in the holder, every call that
\* begins after that goes from the first check straight to the return and
\* never acquires the mutex; the mutex is acquired only by calls whose first read
\* of the holder saw it null.
C14_FastPath ==
    /\ [][\A t \in Threads :
            (pc1[t] = "check1" /\ pc1'[t] # "check1" /\ warm1[t]) =>
                pc1'[t] = "ret"]_vars
    /\ [](\A t \in Threads : warm1[t] => ~locked1[t])
    /\ [][\A t \in Threads :
            (pc1'[t] = "lock" /\ pc1[t] # "lock") =>
                pc1[t] = "check1" /\ view1[t].ptr = NULL]_vars
    /\ [][\A t \in Threads :
            (m_mutex' = t /\ m_mutex # t) => pc1[t] = "lock"]_vars
    /\ [](\A t \in Threads : locked1[t] \/ m_mutex # t)

\* The second half of C14 alone: the mutex is acquired only by calls whose
\* first read of the holder saw it null.
C14_LockOnlyAfterNull ==
    /\ [][\A t \in Threads :
            (pc1'[t] = "lock" /\ pc1[t] # "lock") =>
                pc1[t] = "check1" /\ view1[t].ptr = NULL]_vars
    /\ [][\A t \in Threads :
            (m_mutex' = t /\ m_mutex # t) => pc1[t] = "lock"]_vars

\* Thread t is inside a call of a lazy accessor: between the entry and the
\* return of Singleton1::get_instance, or of an accessor over a static.
InCall(t) ==
    \/ pc1[t] \in {"check1", "lock", "check2", "new", "ctor", "assign", "unlock", "ret"}
    \/ spc[t] \in {"decl", "ctor", "ret"}

\* C15: under fair scheduling, and with a constructor that terminates,
\* every call of a lazy accessor returns, whatever the other callers do; a
\* thread outside the locked region of Singleton1::get_instance does not own
\* m_mutex, so the mutex is released on every path out.
C15_Progress ==
    /\ \A t \in Threads : InCall(t) ~> ~InCall(t)
    /\ [](\A t \in Threads : ~InLock1(t) => m_mutex # t)
    /\ [](m_mutex # NULL => InLock1(m_mutex))

\* Every thread has returned from a call that went through the mutex: one
\* of them waited for the other.
C15_Witness ==
    /\ \A t \in Threads : pc1[t] = "holding" /\ locked1[t]
    /\ m_mutex = NULL
    /\ ctorCalls1 = 1

\* C16: Singleton1() is invoked, and m_instance_ptr written, only by the
\* thread that owns m_mutex and has read the holder null under the lock;
\* at most one thread is in the locked region; once the holder is non-null
\* no call changes it, only the teardown does.
C16_MonotonicHolder ==
    /\ [][ctorCalls1' # ctorCalls1 =>
            \E t \in Threads :
                /\ m_mutex = t /\ pc1[t] = "new"
                /\ m_instance_ptr.ptr = NULL /\ view1[t].ptr = NULL]_vars
    /\ [][m_instance_ptr' # m_instance_ptr =>
            \/ phase1 = "running" /\ phase1' = "exited"
            \/ \E t \in Threads :
                /\ m_mutex = t /\ pc1[t] = "assign"
                /\ m_instance_ptr.ptr = NULL /\ view1[t].ptr = NULL
                /\ m_instance_ptr'.ptr = tmp1[t]]_vars
    /\ [](/\ Cardinality({t \in Threads : InLock1(t)}) <= 1
          /\ \A t \in Threads : InLock1(t) => m_mutex = t)

\* A thread has written the holder under the lock while another thread, which
\* had read the holder null, waits for the mutex.
C16_Witness ==
    \E t \in Threads, u \in Threads :
        /\ pc1[t] = "unlock" /\ m_mutex = t
        /\ m_instance_ptr.ptr # NULL /\ m_instance_ptr.ptr = view1[t].ptr
        /\ obj1[m_instance_ptr.ptr] = "constructed" /\ ctorCalls1 = 1
        /\ pc1[u] = "lock" /\ view1[u].ptr = NULL

\* ================================================================ Clobal
\* Object identities: one per construction, in the order of construction.
ObjIdsG == 1..MaxOps
\* The constructor arguments a caller may forward through New(args...).
ArgVals == 1..NumArgs

NoObj == [state |-> "none", args |-> NULL]

\* No call in progress: nothing was found at entry.
NoEntry == [slot |-> NULL, ctor |-> 0, dtor |-> 0]

\* GetPPtr's static T* ptr = nullptr (line 120): the slot starts absent.
InitG ==
    /\ slot = NULL
    /\ gobj = [o \in ObjIdsG |-> NoObj]
    /\ gctorCalls = 0
    /\ gdtorCalls = 0
    /\ gpc = [t \in Threads |-> "idle"]
    /\ gargs = [t \in Threads |-> NULL]
    /\ gtmp = [t \in Threads |-> NULL]
    /\ gret = [t \in Threads |-> NULL]
    /\ gentry = [t \in Threads |-> NoEntry]
    /\ gops = 0
    /\ gtrace = <<>>
    /\ expected = [obj |-> NULL, args |-> NULL]
    /\ aborted = FALSE

\* Clobal takes no lock: when the callers serialise their calls themselves,
\* a call starts only while no other call is in progress.
MayCall(t) ==
    /\ ~aborted
    /\ gpc[t] = "idle"
    /\ gops < (IF serial THEN MaxOps ELSE MaxRaceOps)
    /\ serial => \A u \in Threads : gpc[u] = "idle"

Snapshot == [slot |-> slot, ctor |-> gctorCalls, dtor |-> gdtorCalls]

\* Line 102 and lines 119-122: Get() is *GetPPtr(), the value of the slot.
Get == slot

\* ---- New(args...), lines 104-108
CallNew(t, a) ==
    /\ MayCall(t)
    /\ gops' = gops + 1
    /\ gargs' = [gargs EXCEPT ![t] = a]
    /\ gentry' = [gentry EXCEPT ![t] = Snapshot]
    /\ gret' = [gret EXCEPT ![t] = NULL]
    /\ gpc' = [gpc EXCEPT ![t] = "new_assert"]
    /\ UNCHANGED <<slot, gobj, gctorCalls, gdtorCalls, gtmp, gtrace,
                   expected, aborted, serial>>
    /\ UNCHANGED othersG

\* A plausible slip: the precondition is not checked (or compiled out).
AssertHolds_Unchecked == TRUE

\* Line 106: assert(Get() == nullptr).
AssertHolds == Get = NULL

NewAssertPass(t) ==
    /\ ~aborted
    /\ gpc[t] = "new_assert"
    /\ AssertHolds
    /\ gpc' = [gpc EXCEPT ![t] = "new_ctor"]
    /\ UNCHANGED <<slot, gobj, gctorCalls, gdtorCalls, gargs, gtmp, gret, gentry,
                   gops, gtrace, expected, aborted, serial>>
    /\ UNCHANGED othersG

\* Line 106, the assertion fails: abort() ends the process, no destructor runs.
NewAssertFail(t) ==
    /\ ~aborted
    /\ gpc[t] = "new_assert"
    /\ ~AssertHolds
    /\ aborted' = TRUE
    /\ gpc' = [gpc EXCEPT ![t] = "aborted"]
    /\ UNCHANGED <<slot, gobj, gctorCalls, gdtorCalls, gargs, gtmp, gret, gentry,
                   gops, gtrace, expected, serial>>
    /\ UNCHANGED othersG

\* A plausible slip: the arguments are not forwarded to the constructor.
ForwardedArgs_Dropped(t) == 1

\* Line 107: std::forward<Args>(args)..., the arguments T is constructed with.
ForwardedArgs(t) == gargs[t]

\* Line 107, right-hand side: new T(std::forward<Args>(args)...).
NewConstruct(t) ==
    /\ ~aborted
    /\ gpc[t] = "new_ctor"
    /\ LET o == gctorCalls + 1 IN
        /\ o \in ObjIdsG
        /\ gobj' = [gobj EXCEPT ![o] = [state |-> "live", args |-> ForwardedArgs(t)]]
        /\ gtmp' = [gtmp EXCEPT ![t] = o]
    /\ gctorCalls' = gctorCalls + 1
    /\ gpc' = [gpc EXCEPT ![t] = "new_store"]
    /\ UNCHANGED <<slot, gdtorCalls, gargs, gret, gentry, gops, gtrace,
                   expected, aborted, serial>>
    /\ UNCHANGED othersG

\* A plausible slip: New destroys the instance it finds installed before it
\* installs the new one.
NewStore_DeleteOld(t) ==
    /\ ~aborted
    /\ gpc[t] = "new_store"
    /\ slot' = gtmp[t]
    /\ IF slot = NULL
       THEN UNCHANGED <<gobj, gdtorCalls>>
       ELSE /\ gobj' = [gobj EXCEPT ![slot].state = "destroyed"]
            /\ gdtorCalls' = gdtorCalls + 1
    /\ expected' = [obj |-> gtmp[t], args |-> gargs[t]]
    /\ gtrace' = Append(gtrace, "New")
    /\ gtmp' = [gtmp EXCEPT ![t] = NULL]
    /\ gargs' = [gargs EXCEPT ![t] = NULL]
    /\ gentry' = [gentry EXCEPT ![t] = NoEntry]
    /\ gpc' = [gpc EXCEPT ![t] = "idle"]
    /\ UNCHANGED <<gctorCalls, gret, gops, aborted, serial>>
    /\ UNCHANGED othersG

\* Line 107, the assignment *GetPPtr() = <new object>; New returns.
NewStore(t) ==
    /\ ~aborted
    /\ gpc[t] = "new_store"
    /\ slot' = gtmp[t]
    /\ expected' = [obj |-> gtmp[t], args |-> gargs[t]]
    /\ gtrace' = Append(gtrace, "New")
    /\ gtmp' = [gtmp EXCEPT ![t] = NULL]
    /\ gargs' = [gargs EXCEPT ![t] = NULL]
    /\ gentry' = [gentry EXCEPT ![t] = NoEntry]
    /\ gpc' = [gpc EXCEPT ![t] = "idle"]
    /\ UNCHANGED <<gobj, gctorCalls, gdtorCalls, gret, gops,
                   aborted, serial>>
    /\ UNCHANGED othersG

\* ---- Get(), line 102
CallGet(t) ==
    /\ MayCall(t)
    /\ gops' = gops + 1
    /\ gentry' = [gentry EXCEPT ![t] = Snapshot]
    /\ gret' = [gret EXCEPT ![t] = NULL]
    /\ gpc' = [gpc EXCEPT ![t] = "get"]
    /\ UNCHANGED <<slot, gobj, gctorCalls, gdtorCalls, gargs, gtmp, gtrace,
                   expected, aborted, serial>>
    /\ UNCHANGED othersG

\* A plausible slip: Get hands the pointer over and empties the slot.
GetReturn_Take(t) ==
    /\ ~aborted
    /\ gpc[t] = "get"
    /\ gret' = [gret EXCEPT ![t] = Get]
    /\ slot' = NULL
    /\ gtrace' = Append(gtrace, "Get")
    /\ gentry' = [gentry EXCEPT ![t] = NoEntry]
    /\ gpc' = [gpc EXCEPT ![t] = "idle"]
    /\ UNCHANGED <<gobj, gctorCalls, gdtorCalls, gargs, gtmp, gops,
                   expected, aborted, serial>>
    /\ UNCHANGED othersG

\* Line 102: return *GetPPtr().
GetReturn(t) ==
    /\ ~aborted
    /\ gpc[t] = "get"
    /\ gret' = [gret EXCEPT ![t] = Get]
    /\ gtrace' = Append(gtrace, "Get")
    /\ gentry' = [gentry EXCEPT ![t] = NoEntry]
    /\ gpc' = [gpc EXCEPT ![t] = "idle"]
    /\ UNCHANGED <<slot, gobj, gctorCalls, gdtorCalls, gargs, gtmp, gops,
                   expected, aborted, serial>>
    /\ UNCHANGED othersG

\* ---- Delete(), lines 110-116
CallDelete(t) ==
    /\ MayCall(t)
    /\ gops' = gops + 1
    /\ gentry' = [gentry EXCEPT ![t] = Snapshot]
    /\ gret' = [gret EXCEPT ![t] = NULL]
    /\ gpc' = [gpc EXCEPT ![t] = "del_check"]
    /\ UNCHANGED <<slot, gobj, gctorCalls, gdtorCalls, gargs, gtmp, gtrace,
                   expected, aborted, serial>>
    /\ UNCHANGED othersG

\* Line 111: if(Get() != nullptr) is false; Delete returns at once.
DeleteEmpty(t) ==
    /\ ~aborted
    /\ gpc[t] = "del_check"
    /\ Get = NULL
    /\ gtrace' = Append(gtrace, "Delete")
    /\ expected' = [obj |-> NULL, args |-> NULL]
    /\ gentry' = [gentry EXCEPT ![t] = NoEntry]
    /\ gpc' = [gpc EXCEPT ![t] = "idle"]
    /\ UNCHANGED <<slot, gobj, gctorCalls, gdtorCalls, gargs, gtmp, gret, gops, aborted, serial>>
    /\ UNCHANGED othersG

\* Line 111: if(Get() != nullptr) is true.
DeleteCheck(t) ==
    /\ ~aborted
    /\ gpc[t] = "del_check"
    /\ Get # NULL
    /\ gpc' = [gpc EXCEPT ![t] = "del_delete"]
    /\ UNCHANGED <<slot, gobj, gctorCalls, gdtorCalls, gargs, gtmp, gret, gentry,
                   gops, gtrace, expected, aborted, serial>>
    /\ UNCHANGED othersG

\* Plausible slips at line 112: the delete-expression is forgotten and the
\* instance is only unlinked; or the destructor is run only for an instance
\* that is still alive.
DeleteDestroy_NoDelete(t) ==
    /\ ~aborted
    /\ gpc[t] = "del_delete"
    /\ gtmp' = [gtmp EXCEPT ![t] = Get]
    /\ gpc' = [gpc EXCEPT ![t] = "del_reset"]
    /\ UNCHANGED <<slot, gobj, gctorCalls, gdtorCalls, gargs, gret, gentry, gops,
                   gtrace, expected, aborted, serial>>
    /\ UNCHANGED othersG

DeleteDestroy_OnlyLive(t) ==
    /\ ~aborted
    /\ gpc[t] = "del_delete"
    /\ gtmp' = [gtmp EXCEPT ![t] = Get]
    /\ IF Get = NULL \/ gobj[Get].state # "live"
       THEN UNCHANGED <<gobj, gdtorCalls>>
       ELSE /\ gobj' = [gobj EXCEPT ![Get].state = "destroyed"]
            /\ gdtorCalls' = gdtorCalls + 1
    /\ gpc' = [gpc EXCEPT ![t] = "del_reset"]
    /\ UNCHANGED <<slot, gctorCalls, gargs, gret, gentry, gops, gtrace,
                   expected, aborted, serial>>
    /\ UNCHANGED othersG

\* Line 112: delete Get(). The pointer is read again and its object
\* destroyed; delete of a null pointer does nothing. Deleting an object a
\* second time is undefined: the destructor runs again on the dead object,
\* or the allocator detects the double free and aborts.
DeleteDestroy(t) ==
    /\ ~aborted
    /\ gpc[t] = "del_delete"
    /\ \/ /\ gtmp' = [gtmp EXCEPT ![t] = Get]
          /\ IF Get = NULL
             THEN UNCHANGED <<gobj, gdtorCalls>>
             ELSE /\ gobj' = [gobj EXCEPT ![Get].state = "destroyed"]
                  /\ gdtorCalls' = gdtorCalls + 1
          /\ gpc' = [gpc EXCEPT ![t] = "del_reset"]
          /\ UNCHANGED aborted
       \/ /\ Get # NULL
          /\ gobj[Get].state = "destroyed"
          /\ aborted' = TRUE
          /\ gpc' = [gpc EXCEPT ![t] = "aborted"]
          /\ UNCHANGED <<gobj, gdtorCalls, gtmp>>
    /\ UNCHANGED <<slot, gctorCalls, gargs, gret, gentry, gops, gtrace,
                   expected, serial>>
    /\ UNCHANGED othersG

\* A plausible slip: the slot keeps the pointer to the destroyed object.
SlotAfterDelete_Stale == slot

\* Line 113: *GetPPtr() = nullptr.
SlotAfterDelete == NULL

\* Lines 113-114: the slot is reset, "Delete" is printed; Delete returns.
DeleteReset(t) ==
    /\ ~aborted
    /\ gpc[t] = "del_reset"
    /\ slot' = SlotAfterDelete
    /\ gtrace' = Append(gtrace, "Delete")
    /\ expected' = [obj |-> NULL, args |-> NULL]
    /\ gtmp' = [gtmp EXCEPT ![t] = NULL]
    /\ gentry' = [gentry EXCEPT ![t] = NoEntry]
    /\ gpc' = [gpc EXCEPT ![t] = "idle"]
    /\ UNCHANGED <<gobj, gctorCalls, gdtorCalls, gargs, gret, gops,
                   aborted, serial>>
    /\ UNCHANGED othersG

NextG ==
    \/ \E t \in Threads, a \in ArgVals : CallNew(t, a)
    \/ \E t \in Threads : NewAssertPass(t)
    \/ \E t \in Threads : NewAssertFail(t)
    \/ \E t \in Threads : NewConstruct(t)
    \/ \E t \in Threads : NewStore(t)
    \/ \E t \in Threads : CallGet(t)
    \/ \E t \in Threads : GetReturn(t)
    \/ \E t \in Threads : CallDelete(t)
    \/ \E t \in Threads : DeleteEmpty(t)
    \/ \E t \in Threads : DeleteCheck(t)
    \/ \E t \in Threads : DeleteDestroy(t)
    \/ \E t \in Threads : DeleteReset(t)


\* ------------------------------------------------------ claims on Clobal
AllIdleG == \A t \in Threads : gpc[t] = "idle"

LastOp == IF gtrace = <<>> THEN "none" ELSE gtrace[Len(gtrace)]

\* C5: a New called while the slot holds an instance never gets past its
\* assertion: the assertion fails and ends the process, no second T is
\* constructed, the installed pointer is not replaced and the installed
\* instance is not destroyed.
C5_NewOnOccupiedAborts ==
    \A t \in Threads :
        /\ gpc[t] \in {"new_ctor", "new_store"} => gentry[t].slot = NULL
        /\ (gpc[t] = "new_assert" /\ gentry[t].slot # NULL) =>
              ENABLED NewAssertFail(t) /\ ~ENABLED NewAssertPass(t)
        /\ gpc[t] = "aborted" =>
              /\ gentry[t].slot # NULL
              /\ slot = gentry[t].slot
              /\ gobj[slot].state = "live"
              /\ gctorCalls = gentry[t].ctor
              /\ gdtorCalls = gentry[t].dtor

\* New was called on an occupied slot and the assertion has fired.
C5_Witness ==
    \E t \in Threads : gpc[t] = "aborted" /\ aborted /\ slot # NULL

\* C6: once a Delete has returned the slot is absent, and a Delete that finds
\* the slot absent (the second of two in a row in particular) returns having
\* destroyed nothing and changed nothing.
C6_DeleteIdempotent ==
    /\ []((AllIdleG /\ LastOp = "Delete") => slot = NULL)
    /\ [][\A t \in Threads :
            (gpc[t] = "del_check" /\ gentry[t].slot = NULL /\ gpc'[t] # gpc[t]) =>
                /\ gpc'[t] = "idle"
                /\ UNCHANGED <<slot, gobj, gctorCalls, gdtorCalls>>]_vars

\* Two Deletes in a row have returned after a New: the first destroyed the
\* instance, the second destroyed nothing.
C6_Witness ==
    /\ Len(gtrace) >= 3
    /\ gtrace[Len(gtrace)] = "Delete"
    /\ gtrace[Len(gtrace) - 1] = "Delete"
    /\ gtrace[Len(gtrace) - 2] = "New"
    /\ gdtorCalls = 1
    /\ slot = NULL

\* C7: Get returns the pointer installed in the slot (null when absent),
\* constructs nothing, destroys nothing, leaves the slot alone, and is never
\* kept waiting.
C7_GetIsPureRead ==
    /\ [](\A t \in Threads : (gpc[t] = "get" /\ ~aborted) => ENABLED GetReturn(t))
    /\ [][\A t \in Threads :
            (gpc[t] = "get" /\ gpc'[t] # "get") =>
                /\ gret'[t] = slot
                /\ UNCHANGED <<slot, gobj, gctorCalls, gdtorCalls>>]_vars

\* A Get has returned the installed pointer, and an earlier Get returned
\* absent.
C7_Witness ==
    /\ LastOp = "Get"
    /\ \E t \in Threads : gret[t] # NULL /\ gret[t] = slot
    /\ gtrace[1] = "Get"

\* C8: under serialised calls, between calls the slot holds exactly what the
\* calls so far should have left: after New(args) the live instance that New
\* constructed, with exactly those arguments, until the next Delete; absent
\* after a Delete. Every Get returns just that, a New on an absent slot gets
\* past its assertion, and what a New installs is freshly constructed.
C8_Lifecycle ==
    /\ [](AllIdleG =>
            /\ slot = expected.obj
            /\ slot # NULL =>
                  /\ gobj[slot].state = "live"
                  /\ gobj[slot].args = expected.args
                  /\ LastOp \in {"New", "Get"}
            /\ LastOp = "New" => slot = gctorCalls
            /\ LastOp = "Delete" => slot = NULL)
    /\ [](\A t \in Threads :
            (gpc[t] = "new_assert" /\ expected.obj = NULL) => ENABLED NewAssertPass(t))
    /\ [][\A t \in Threads :
            (gpc[t] = "get" /\ gpc'[t] # "get") => gret'[t] = expected.obj]_vars

\* New(2), Get, Delete, Get, Delete, New have returned in this order: the
\* first Get returned the instance constructed with 2, the second absent.
C8_Witness ==
    /\ gtrace = <<"New", "Get", "Delete", "Get", "Delete", "New">>
    /\ gobj[1] = [state |-> "destroyed", args |-> 2]
    /\ slot = 2 /\ gobj[2].state = "live"
    /\ gctorCalls = 2 /\ gdtorCalls = 1

\* An instance nothing points to any more: alive, not installed, and not on
\* its way into the slot.
Leaked(o) ==
    /\ gobj[o].state = "live"
    /\ slot # o
    /\ \A t \in Threads : ~(gpc[t] = "new_store" /\ gtmp[t] = o)

DestroyedG == {o \in ObjIdsG : gobj[o].state = "destroyed"}

\* C13: New is not atomic. A New whose assertion passed constructs and
\* stores whatever has happened to the slot since: when two unserialised
\* News both pass the check, no assertion fires, both construct, the later
\* store overwrites the earlier pointer without destroying its instance, and
\* that instance stays alive and unreachable for good.
C13_NewNotAtomic ==
    /\ [][\A t \in Threads :
            (gpc[t] = "new_store" /\ gpc'[t] # "new_store") =>
                /\ slot' = gtmp[t]
                /\ gobj' = gobj
                /\ gdtorCalls' = gdtorCalls
                /\ aborted' = aborted]_vars
    /\ [][\A o \in ObjIdsG : Leaked(o) => Leaked(o)']_vars
    /\ []((gtrace = <<"New", "New">> /\ gops = 2 /\ AllIdleG) =>
            /\ ~aborted
            /\ gctorCalls = 2 /\ gdtorCalls = 0
            /\ slot = expected.obj /\ slot \in {1, 2}
            /\ \E o \in {1, 2} : Leaked(o))

\* Two threads called New on the empty slot, both passed the assertion and
\* both have returned: two instances are alive, the slot holds the one stored
\* last and the other is lost.
C13_Witness ==
    /\ gtrace = <<"New", "New">> /\ gops = 2 /\ AllIdleG
    /\ ~aborted
    /\ gctorCalls = 2 /\ gdtorCalls = 0
    /\ gobj[1].state = "live" /\ gobj[2].state = "live"
    /\ slot = 1 /\ Leaked(2)

\* C17: under serialised calls, between calls the constructions exceed the
\* destructions by one when the slot is occupied and by none when it is
\* absent; no instance is leaked and none destroyed twice; an occupied slot
\* points to the instance constructed last, which is alive.
C17_ResourceBalance ==
    /\ Cardinality(DestroyedG) = gdtorCalls
    /\ \A o \in ObjIdsG : ~Leaked(o)
    /\ (AllIdleG \/ aborted) =>
          /\ gctorCalls - gdtorCalls = IF slot # NULL THEN 1 ELSE 0
          /\ Cardinality({o \in ObjIdsG : gobj[o].state = "live"}) =
                IF slot # NULL THEN 1 ELSE 0
          /\ slot # NULL => slot = gctorCalls /\ gobj[slot].state = "live"

\* Three instances were constructed in turn and the first two destroyed;
\* the third is installed.
C17_Witness ==
    /\ AllIdleG
    /\ gctorCalls = 3 /\ gdtorCalls = 2
    /\ slot = 3 /\ gobj[3].state = "live"
    /\ DestroyedG = {1, 2}

\* C18: Delete is not atomic. Its delete-expression destroys whatever the
\* slot holds at that moment, destroyed already or not, and Get returns
\* whatever the slot holds: two unserialised Deletes that both passed the
\* check destroy the same instance twice, and a Get concurrent with a Delete
\* returns a pointer to a destroyed instance.
C18_DeleteNotAtomic ==
    /\ [][\A t \in Threads :
            (gpc[t] = "del_delete" /\ gpc'[t] = "del_reset" /\ slot # NULL) =>
                /\ gobj'[slot].state = "destroyed"
                /\ gdtorCalls' = gdtorCalls + 1]_vars
    /\ [][\A t \in Threads :
            (gpc[t] = "get" /\ gpc'[t] # "get") => gret'[t] = slot]_vars
    /\ [](Cardinality(DestroyedG) <= gdtorCalls)

\* Two Deletes found the same instance installed and each has run its
\* destructor: two destructions of the one instance ever constructed.
C18_Witness ==
    /\ ~aborted
    /\ gctorCalls = 1 /\ gdtorCalls = 2
    /\ DestroyedG = {1}
    /\ \E t \in Threads, u \in Threads :
        /\ t # u
        /\ gpc[t] = "del_reset" /\ gtmp[t] = 1 /\ gentry[t].slot = 1
        /\ gpc[u] = "del_reset" /\ gtmp[u] = 1 /\ gentry[u].slot = 1

\* The second half of C18 as a reachable state: a Get that began after a
\* Delete destroyed the installed instance and before that Delete reset the
\* slot has returned the pointer to the destroyed instance.
C18_GetReturnsDestroyed ==
    \E t \in Threads, u \in Threads :
        /\ gpc[u] = "del_reset" /\ gtmp[u] = slot
        /\ gpc[t] = "idle" /\ gret[t] = slot
        /\ slot # NULL /\ gobj[slot].state = "destroyed"
        /\ gtrace = <<"New", "Get">>

\* C9: when the constructor of a lazily constructed singleton fails in the
\* call that triggers the construction, the failure reaches that caller (the
\* process goes on), nothing is installed, no call returns an instance whose
\* construction did not complete, and the next call constructs from scratch.
C9_ConstructorFailurePropagates ==
    /\ ~terminated
    /\ \A c \in Statics : guard[c] = "uninit" => inst[c] = NULL
    /\ \A t \in Threads :
        /\ \A c \in Statics :
              sret[t][c] # NULL => sctorDone[c] >= 1 /\ sret[t][c] = inst[c]
        /\ (spc[t] = "decl" /\ guard[scls[t]] = "uninit") => ENABLED BeginInit(t)

\* The same for Singleton1: after a failed construction the holder is still
\* empty and the mutex free, and a handle is returned only to an instance
\* whose constructor completed.
C9_Singleton1Part ==
    /\ \A t \in Threads :
        /\ pc1[t] = "threw" => m_instance_ptr.ptr # NULL \/ m_mutex # t
        /\ pc1[t] = "holding" =>
              ret1[t].ptr # NULL /\ obj1[ret1[t].ptr] \in {"constructed", "destroyed"}
    /\ m_mutex # NULL => pc1[m_mutex] \in {"check2", "new", "ctor", "assign", "unlock"}
    /\ m_instance_ptr.ptr # NULL => obj1[m_instance_ptr.ptr] = "constructed"
    /\ (m_instance_ptr.ptr = NULL /\ phase1 = "running"
          /\ \A t \in Threads : pc1[t] # "assign") => Constructed1 = {}

\* ============================================================ Singleton4
\* Before the dynamic initialisation of the translation unit has reached
\* line 156, m_instance is zero-initialised storage.
Init4 ==
    /\ m_instance = "storage"
    /\ ctorCalls4 = 0
    /\ dtorCalls4 = 0
    /\ phase4 = "static_init"
    /\ pc4 = [t \in Threads |-> "idle"]
    /\ ret4 = [t \in Threads |-> "none"]
    /\ early4 = [t \in Threads |-> FALSE]
    /\ calls4 = 0

\* Line 156: Singleton4 Singleton4::m_instance; the dynamic initialisation
\* of the static data member runs Singleton4() (lines 152-154) before main.
\* The initialisers of other translation units that call get_instance are
\* not ordered with it; they have returned by the time main is entered.
StaticInit4 ==
    /\ phase4 = "static_init"
    /\ \A t \in Threads : pc4[t] = "idle"
    /\ m_instance' = "constructed"
    /\ ctorCalls4' = ctorCalls4 + 1
    /\ phase4' = "main"
    /\ UNCHANGED <<dtorCalls4, pc4, ret4, early4, calls4>>
    /\ UNCHANGED others4

\* A caller enters get_instance (line 143).
Call4(t) ==
    /\ phase4 \in {"static_init", "main"}
    /\ pc4[t] = "idle"
    /\ calls4 < MaxCalls
    /\ calls4' = calls4 + 1
    /\ pc4' = [pc4 EXCEPT ![t] = "body"]
    /\ ret4' = [ret4 EXCEPT ![t] = "none"]
    /\ early4' = [early4 EXCEPT ![t] = FALSE]
    /\ UNCHANGED <<m_instance, ctorCalls4, dtorCalls4, phase4>>
    /\ UNCHANGED others4

\* A plausible slip: the accessor constructs the instance when it is called.
GetInstance4_Lazy(t) ==
    /\ pc4[t] = "body"
    /\ m_instance' = "constructed"
    /\ ctorCalls4' = ctorCalls4 + 1
    /\ ret4' = [ret4 EXCEPT ![t] = "m_instance"]
    /\ early4' = [early4 EXCEPT ![t] = FALSE]
    /\ pc4' = [pc4 EXCEPT ![t] = "idle"]
    /\ UNCHANGED <<dtorCalls4, phase4, calls4>>
    /\ UNCHANGED others4

\* Line 144: return m_instance; a reference to the static data member,
\* whatever its state.
GetInstance4(t) ==
    /\ pc4[t] = "body"
    /\ ret4' = [ret4 EXCEPT ![t] = "m_instance"]
    /\ early4' = [early4 EXCEPT ![t] = m_instance = "storage"]
    /\ pc4' = [pc4 EXCEPT ![t] = "idle"]
    /\ UNCHANGED <<m_instance, ctorCalls4, dtorCalls4, phase4, calls4>>
    /\ UNCHANGED others4

\* main has returned and the callers with it: ~Singleton4() (lines 148-150)
\* runs in the destruction of the objects of static storage duration.
Exit4 ==
    /\ phase4 = "main"
    /\ \A t \in Threads : pc4[t] = "idle"
    /\ m_instance' = "destroyed"
    /\ dtorCalls4' = dtorCalls4 + 1
    /\ phase4' = "exited"
    /\ UNCHANGED <<ctorCalls4, pc4, ret4, early4, calls4>>
    /\ UNCHANGED others4

Next4 ==
    \/ StaticInit4
    \/ \E t \in Threads : Call4(t)
    \/ \E t \in Threads : GetInstance4(t)
    \/ Exit4

\* C19: m_instance is constructed exactly once, during static
\* initialisation and before main, called for or not; get_instance never
\* constructs, takes no lock and is never kept waiting, and always returns a
\* reference to the one m_instance; the instance is destroyed exactly once,
\* at exit.
C19_EagerSingleton ==
    /\ [](/\ phase4 = "static_init" =>
                m_instance = "storage" /\ ctorCalls4 = 0 /\ dtorCalls4 = 0
          /\ phase4 = "main" =>
                m_instance = "constructed" /\ ctorCalls4 = 1 /\ dtorCalls4 = 0
          /\ phase4 = "exited" =>
                m_instance = "destroyed" /\ ctorCalls4 = 1 /\ dtorCalls4 = 1
          /\ \A t \in Threads :
                /\ ret4[t] \in {"none", "m_instance"}
                /\ pc4[t] = "body" => ENABLED GetInstance4(t))
    /\ [][\A t \in Threads :
            (pc4[t] = "body" /\ pc4'[t] # "body") =>
                /\ ret4'[t] = "m_instance"
                /\ UNCHANGED <<m_instance, ctorCalls4, dtorCalls4, m_mutex>>]_vars
    /\ [][ctorCalls4' # ctorCalls4 => phase4 = "static_init" /\ phase4' = "main"]_vars

\* Every thread has called get_instance in main and got m_instance, the
\* program has exited: one construction, one destruction.
C19_Witness ==
    /\ phase4 = "exited"
    /\ \A t \in Threads : ret4[t] = "m_instance" /\ ~early4[t]
    /\ calls4 >= NumThreads
    /\ ctorCalls4 = 1 /\ dtorCalls4 = 1

\* ------------------------------------------------------- specifications
InitRest == outside = 0 /\ Init4

Init == Init1 /\ InitS /\ InitG /\ InitRest /\ nothrow_default = FALSE /\ serial = TRUE

\* Singleton3 over any T: T's default constructor is noexcept or not.
InitAnyT == Init1 /\ InitS /\ InitG /\ InitRest /\ nothrow_default \in BOOLEAN /\ serial = TRUE

\* Clobal called from several threads with no serialisation of the calls.
InitRace == Init1 /\ InitS /\ InitG /\ InitRest /\ nothrow_default = FALSE /\ serial = FALSE

SpecDCL == Init /\ [][Next1]_vars

SpecStatic == Init /\ [][NextS]_vars

SpecGlobal == Init /\ [][NextG]_vars

SpecGlobalRace == InitRace /\ [][NextG]_vars

SpecToken == Init /\ [][NextToken]_vars

SpecEager == Init /\ [][Next4]_vars

\* The lazy accessors under fair scheduling, over constructors that
\* terminate normally. A run exercises one kind of accessor: the holders share nothing, so
\* the progress of a call does not depend on calls of the other kind. A
\* thread inside an accessor keeps taking steps; whether a caller calls at
\* all, and what a thread reads without synchronisation, is not forced.
\* The callers keep the handles they are returned.
LazyCall1(t) == scalls = 0 /\ calls1 < MaxFairCalls /\ Call1(t)

LazyCallS(t, c) == calls1 = 0 /\ scalls < MaxFairCalls /\ CallS(t, c)

NextLazy ==
    \/ \E t \in Threads : LazyCall1(t)
    \/ \E t \in Threads : FirstCheck(t)
    \/ \E t \in Threads : Lock(t)
    \/ \E t \in Threads : SecondCheck(t)
    \/ \E t \in Threads : New1(t)
    \/ \E t \in Threads : CtorDone1(t)
    \/ \E t \in Threads : Assign1(t)
    \/ \E t \in Threads : Unlock(t)
    \/ \E t \in Threads : Return1(t)
    \/ \E t \in Threads : ObserveObj(t)
    \/ \E t \in Threads : ObservePtr(t)
    \/ \E t \in Threads : ObserveCtrl(t)
    \/ \E t \in Threads, c \in {"Singleton2", "Singleton3"} : LazyCallS(t, c)
    \/ \E t \in Threads : BeginInit(t)
    \/ \E t \in Threads : SkipInit(t)
    \/ \E t \in Threads : CtorDoneS(t)
    \/ \E t \in Threads : ReturnS(t)

Fairness ==
    \A t \in Threads : WF_vars(Step1(t)) /\ WF_vars(StepS(t))

SpecLazyFair == Init /\ [][NextLazy]_vars /\ Fairness

SpecDCLThrow == Init /\ [][Next1Throw]_vars

SpecStaticThrow == InitAnyT /\ [][NextSThrow]_vars

=============================================================================
